---- MODULE Spec2Model ----
(***************************************************************************)
(* Model of the Intel HEX loader of tek-firmware-updater                   *)
(* (src/tek-firmware-updater.c): read_record_from_line and the read loop   *)
(* of load_ihex_buffer, over a character-level input stream; and of the    *)
(* command line program around it: main of src/tek-firmware-updater.c and  *)
(* main and get_handle_to_tek_device of the libusb build                   *)
(* (src/unnamed/part_000), whose loader is the same code, with the static  *)
(* buffer of format_error that their error strings share.                  *)
(*                                                                         *)
(* Characters are one-character strings, C strings are sequences of        *)
(* characters (1-based here, 0-based in the source: line[k] is s[k+1]).    *)
(***************************************************************************)
EXTENDS Integers, Sequences, FiniteSets, TLC

\* ------------------------------------------------------------------------
\* Program constants
\* ------------------------------------------------------------------------
IHEX_BUFFER_MAX_SZ == 16384

IHEX_LINE_MAX_SZ == 521

\* ------------------------------------------------------------------------
\* Bounds of the model
\* ------------------------------------------------------------------------
\* number of physical input lines after which the input must end
MaxLines == 3
\* generated records carry 0..MaxSize data bytes
MaxSize == 2
\* generated records are placed at addresses 0..MaxAddr
MaxAddr == 2
\* small buffer capacities 1..MaxCap are tried besides IHEX_BUFFER_MAX_SZ
MaxCap == 3
\* at most MaxDevices usb devices are connected when the devices are listed
MaxDevices == 2

\* ------------------------------------------------------------------------
\* C integer conversions
\* ------------------------------------------------------------------------
\* (ui8)x : conversion to uint8_t, modulo 2^8 (negative x wraps)
ui8(x) == x % 256

\* (ui16)x : conversion to uint16_t, modulo 2^16
ui16(x) == x % 65536

\* addr>>8 on an int (arithmetic shift: floor division)
Shr8(x) == x \div 256

\* ------------------------------------------------------------------------
\* Characters
\* ------------------------------------------------------------------------
UpperHex == <<"0","1","2","3","4","5","6","7","8","9","A","B","C","D","E","F">>

LowerHex == <<"0","1","2","3","4","5","6","7","8","9","a","b","c","d","e","f">>

\* isxdigit
IsHex(c) == \E v \in 1..16 : c = UpperHex[v] \/ c = LowerHex[v]

\* value of a hexadecimal digit
HexVal(c) == (CHOOSE v \in 1..16 : c = UpperHex[v] \/ c = LowerHex[v]) - 1

\* isspace: the white space a scanf conversion skips
IsSpace(c) == c \in {" ", "\t", "\n", "\r", "\f"}

\* ------------------------------------------------------------------------
\* sscanf( s+start, "%<width>x", &v ), as one conversion step
\* ------------------------------------------------------------------------
\* first position >= p that is past the end of s or holds no white space
SkipSpace(s, p) ==
    CHOOSE q \in p..(Len(s) + 1) :
        /\ \A r \in p..(q - 1) : IsSpace(s[r])
        /\ (q = Len(s) + 1 \/ ~IsSpace(s[q]))

\* number of hexadecimal digits at s[p..], at most w of them
DigitRun(s, p, w) ==
    CHOOSE n \in 0..w :
        /\ \A r \in p..(p + n - 1) : r <= Len(s) /\ IsHex(s[r])
        /\ (n = w \/ p + n > Len(s) \/ ~IsHex(s[p + n]))

RECURSIVE HexNumber(_, _, _)
\* value of the n hexadecimal digits s[p..p+n-1]
HexNumber(s, p, n) ==
    IF n = 0 THEN 0
    ELSE 16 * HexNumber(s, p, n - 1) + HexVal(s[p + n - 1])

\* the single element of a one-element set: Only({ e(x) : x \in {v} }) is
\* e(v) with v evaluated once, like a C local variable assigned once
Only(S) == CHOOSE v \in S : TRUE

\* a conversion that stored nothing and stopped at position p
ScanFailed(p) == [ok |-> FALSE, val |-> 0, next |-> p]

\* the digits of a %x conversion: at most w hexadecimal digits at s[p..];
\* neg: a '-' was read, pfx: a 0x prefix was read
ScanDigits(s, p, w, neg, pfx, bare0x) ==
    Only({ IF n = 0 /\ ~(pfx /\ bare0x) THEN ScanFailed(p)
           ELSE [ok   |-> TRUE,
                 val  |-> IF neg THEN 0 - HexNumber(s, p, n) ELSE HexNumber(s, p, n),
                 next |-> p + n]
           : n \in {DigitRun(s, p, w)} })

\* the optional 0x or 0X prefix of a %x conversion, when the width allows it
ScanPrefix(s, p, w, neg, bare0x) ==
    IF w >= 2 /\ p + 1 <= Len(s) /\ s[p] = "0" /\ s[p + 1] \in {"x", "X"}
    THEN ScanDigits(s, p + 2, w - 2, neg, TRUE, bare0x)
    ELSE ScanDigits(s, p, w, neg, FALSE, bare0x)

\* the optional sign of a %x conversion; it counts against the width
ScanSign(s, p, w, bare0x) ==
    IF p > Len(s) THEN ScanFailed(p)
    ELSE IF s[p] \in {"+", "-"} THEN ScanPrefix(s, p + 1, w - 1, s[p] = "-", bare0x)
    ELSE ScanPrefix(s, p, w, FALSE, bare0x)

\* One %x conversion of field width `width` applied at position `start`.
\* White space is skipped without counting against the width; then an
\* optional sign, an optional 0x/0X prefix and hexadecimal digits are read,
\* at most `width` characters in all.  `bare0x` is the C library's choice
\* for a prefix followed by no digit (accepted as 0, or a matching failure).
\* Result: ok (a value was stored), val (the int stored), next (position of
\* the first character not consumed).
ScanHex(s, start, width, bare0x) ==
    Only({ ScanSign(s, p, width, bare0x) : p \in {SkipSpace(s, start)} })

\* ------------------------------------------------------------------------
\* read_record_from_line
\* ------------------------------------------------------------------------
\* a null char * (no error)
NULL == "NULL"

\* the record of an iteration in which read_record_from_line stored none
NoRecord == [size |-> 0, addr |-> 0, type |-> 0, data |-> <<>>, checksum |-> 0, parsed |-> FALSE]

\* strlen(line) after the loop that removes trailing '\n' and '\r'
StrippedLength(line) ==
    CHOOSE n \in 0..Len(line) :
        /\ \A r \in (n + 1)..Len(line) : line[r] \in {"\n", "\r"}
        /\ (n = 0 \/ line[n] \notin {"\n", "\r"})

\* sscanf( line+1, "%2x%4x%2x", &size, &addr, &type ): the three conversions
\* run one after the other, each where the previous one stopped; status is
\* the number of values stored.
ScanHeader(s, bare0x) ==
    Only({ Only({ Only({
        [status |-> IF ~h1.ok THEN 0 ELSE IF ~h2.ok THEN 1 ELSE IF ~h3.ok THEN 2 ELSE 3,
         size |-> h1.val, addr |-> h2.val, type |-> h3.val]
        : h3 \in {ScanHex(s, h2.next, 2, bare0x)} })
        : h2 \in {ScanHex(s, h1.next, 4, bare0x)} })
        : h1 \in {ScanHex(s, 2, 2, bare0x)} })

\* sscanf( line+9+2*i, "%2x", &datum ) for the i-th data byte (i from 0)
ScanDatum(s, i, bare0x) == ScanHex(s, 10 + 2 * i, 2, bare0x)

\* sscanf( line+9+2*size, "%2x", &checksum )
ScanChecksum(s, size, bare0x) == ScanHex(s, 10 + 2 * size, 2, bare0x)

RECURSIVE SumRange(_, _, _)
\* *check_sum += (ui8)datum over the data bytes lo..hi, in uint8_t arithmetic.
\* Addition modulo 256 is associative: the bytes are added half by half, which
\* gives the value of the loop's left-to-right sum at a nesting depth of
\* log2(size) rather than size.
SumRange(data, lo, hi) ==
    IF lo > hi THEN 0
    ELSE IF lo = hi THEN ui8(data[lo])
    ELSE ui8(SumRange(data, lo, (lo + hi) \div 2) + SumRange(data, ((lo + hi) \div 2) + 1, hi))

\* what the first n data bytes add to check_sum
SumData(data, n) == SumRange(data, 1, n)

\* HeaderSum without the high byte of the address
HeaderSum_NoHighByte(size, addr, type) ==
    ui8(ui8(ui8(size) + ui8(addr)) + ui8(type))

\* the running check_sum after the header: size, high and low byte of addr, type
HeaderSum(size, addr, type) ==
    ui8(ui8(ui8(ui8(size) + ui8(Shr8(addr))) + ui8(addr)) + ui8(type))

\* read_record_from_line returning the error string msg
ReadFailed(msg) == [error |-> msg, record |-> NoRecord, check_sum |-> 0]

\* the part of read_record_from_line after the header was scanned into hdr:
\* s is the line without its line end, of the given length
ReadFields(s, length, hdr, bare0x) ==
    IF hdr.status # 3 THEN ReadFailed("Error parsing record header")
    \* length is a size_t and 11+2*size an int: a negative size never matches
    ELSE IF length # 11 + 2 * hdr.size THEN ReadFailed("Invalid line length")
    ELSE Only({ Only({
            IF \E i \in 1..hdr.size : ~scans[i].ok
            THEN ReadFailed("Error parsing record data")
            ELSE IF ~sum.ok THEN ReadFailed("Error parsing record chechsum")
            ELSE Only({
                [error     |-> NULL,
                 record    |-> [size     |-> ui8(hdr.size),
                                addr     |-> ui16(hdr.addr),
                                type     |-> ui8(hdr.type),
                                data     |-> data,
                                checksum |-> ui8(sum.val),
                                parsed   |-> TRUE],
                 check_sum |-> ui8(HeaderSum(hdr.size, hdr.addr, hdr.type)
                                       + SumData(data, hdr.size))]
                : data \in {[i \in 1..hdr.size |-> ui8(scans[i].val)]} })
            : sum \in {ScanChecksum(s, hdr.size, bare0x)} })
            : scans \in {[i \in 1..hdr.size |-> ScanDatum(s, i - 1, bare0x)]} })

\* ReadStripped testing the start code before the length
ReadStripped_StartCodeFirst(s, length, bare0x) ==
    IF length = 0 \/ s[1] # ":" THEN ReadFailed("Invalid start code")
    ELSE IF length < 11 THEN ReadFailed("Invalid line length")
    ELSE Only({ ReadFields(s, length, hdr, bare0x) : hdr \in {ScanHeader(s, bare0x)} })

\* the part of read_record_from_line after the line end was removed
ReadStripped(s, length, bare0x) ==
    IF length < 11 THEN ReadFailed("Invalid line length")
    ELSE IF s[1] # ":" THEN ReadFailed("Invalid start code")
    ELSE Only({ ReadFields(s, length, hdr, bare0x) : hdr \in {ScanHeader(s, bare0x)} })

\* read_record_from_line( line, &record, &check_sum ): the error string
\* returned (NULL when a record was produced), the record and the check_sum.
ReadRecordFromLine(line, bare0x) ==
    Only({ Only({ ReadStripped(s, length, bare0x)
                  : s \in {SubSeq(line, 1, length)} })
           : length \in {StrippedLength(line)} })

\* ------------------------------------------------------------------------
\* Input lines offered to the loader
\* ------------------------------------------------------------------------
\* two upper-case hexadecimal digits of a byte
Hex2(b) == <<UpperHex[(b \div 16) + 1], UpperHex[(b % 16) + 1]>>

\* the hexadecimal digits of a sequence of bytes: two for each byte, in order
HexBytes(bytes) ==
    [k \in 1..(2 * Len(bytes)) |-> Hex2(bytes[(k + 1) \div 2])[2 - (k % 2)]]

RECURSIVE SumFrom(_, _, _)
\* the sum of the bytes lo..hi of a sequence, added half by half
SumFrom(bytes, lo, hi) ==
    IF lo > hi THEN 0
    ELSE IF lo = hi THEN bytes[lo]
    ELSE SumFrom(bytes, lo, (lo + hi) \div 2) + SumFrom(bytes, ((lo + hi) \div 2) + 1, hi)

\* the sum of a sequence of bytes
SumBytes(bytes) == SumFrom(bytes, 1, Len(bytes))

\* the text of a record line: ':' size addr type data checksum
RecordText(size, addr, type, data, checksum) ==
    <<":">> \o Hex2(size) \o Hex2(addr \div 256) \o Hex2(addr % 256) \o Hex2(type)
            \o HexBytes(data) \o Hex2(checksum)

\* the checksum byte that makes all the bytes of a record line sum to 0 mod 256
Complement(size, addr, type, data) ==
    (256 - ((size + (addr \div 256) + (addr % 256) + type + SumBytes(data)) % 256)) % 256

\* a record line with the checksum off by `off`
Line(size, addr, type, data, off) ==
    RecordText(size, addr, type, data, (Complement(size, addr, type, data) + off) % 256)

\* the data bytes given to the generated data record of `size` bytes at `addr`
DataOf(addr, size) == [i \in 1..size |-> (208 + 16 * addr + 4 * size + i) % 256]

\* generated data records, with a correct checksum
DataTexts == { Line(sz, a, 0, DataOf(a, sz), 0) : sz \in 0..MaxSize, a \in 0..MaxAddr }

\* records of every kind of type, some with a size, an address and data
TypeTexts ==
    { Line(0, 0, t, <<>>, 0) : t \in {1, 2, 3, 4, 5, 6, 255} }
        \cup { Line(1, 65535, 1, <<119>>, 0), Line(1, 0, 2, <<119>>, 0),
               Line(1, 0, 6, <<119>>, 0) }

\* records at the top of a buffer of IHEX_BUFFER_MAX_SZ bytes
HighTexts ==
    { Line(2, IHEX_BUFFER_MAX_SZ - 3, 0, <<90, 91>>, 0),
      Line(1, IHEX_BUFFER_MAX_SZ - 1, 0, <<90>>, 0),
      Line(0, IHEX_BUFFER_MAX_SZ, 0, <<>>, 0),
      Line(2, 65535, 0, <<90, 91>>, 0),
      Line(0, 5, 0, <<>>, 0) }

\* the largest size a record can state: the size field is one byte
MaxRecordSize == 255

\* the longest records: 254 and 255 data bytes, lines of 519 and 521 characters
LongTexts ==
    { Line(sz, 0, 0, DataOf(0, sz), 0) : sz \in {MaxRecordSize - 1, MaxRecordSize} }

\* records whose checksum byte is wrong
BadSumTexts ==
    { Line(1, 0, 0, <<17>>, 1), Line(0, 0, 1, <<>>, 255), Line(0, 0, 3, <<>>, 1),
      Line(0, 0, 9, <<>>, 128), Line(1, 65535, 0, <<17>>, 1) }

\* the lines of the documented scenarios
ScenarioB00 == <<":","0","4","0","0","0","0","0","0","D","E","A","D","B","E","E","F","0","0">>

ScenarioBC4 == <<":","0","4","0","0","0","0","0","0","D","E","A","D","B","E","E","F","C","4">>

ScenarioC00 == <<":","0","1","0","0","0","0","0","0","F","F","0","0">>

ScenarioC01 == <<":","0","1","0","0","0","0","0","0","F","F","0","1">>

Terminator == <<":","0","0","0","0","0","0","0","1","F","F">>

ScenarioTexts == { ScenarioB00, ScenarioBC4, ScenarioC00, ScenarioC01, Terminator }

\* lines that are not of the shape ':' hex digits
MalformedTexts ==
    { <<>>,
      <<":","0","0","0","0","0","0","0","1","F">>,
      <<"0","0","0","0","0","0","0","1","F","F">>,
      <<"X","0","0","0","0","0","0","0","1","F","F">>,
      <<":","0","G","0","0","0","0","0","1","F","F">>,
      <<":","0","1","0","0","0","0","0","0","F","F">>,
      <<":","0","0","0","0","0","0","0","1","F","F","0","0">>,
      <<":","0","1","0","0","0","0","0","0","Z","Z","0","0">>,
      <<":","0","0","0","0","0","0","0","1","Z","Z">>,
      <<":","0","0","0","0","0","0","0","1","f","f">>,
      <<":","-","0","0","0","0","0","0","1","F","F">>,
      <<":","0","x","0","0","0","0","0","1","F","F">>,
      <<":","0","0","0","0","-","1","F","F","0","2">>,
      <<":","0"," ","0","0","0","0","0","1","F","F">>,
      <<":","0","0","0","0","0","0","1","G","F","F">>,
      <<":","G","G","0","0","0","0","0","1","F","F","0","0">>,
      <<":","0","2","0","0","0","0","0","0","Z","Z","0","0">>,
      <<":","0","1","0","0","0","0","0","0","Z","Z","Z","Z">> }

\* the line texts tried with a small buffer, and with the buffer of main
Texts == DataTexts \cup TypeTexts \cup HighTexts \cup BadSumTexts
            \cup ScenarioTexts \cup MalformedTexts \cup LongTexts

BigTexts == ScenarioTexts \cup HighTexts \cup LongTexts

\* '\n' and '\r\n'
LineEnds == { <<"\n">>, <<"\r", "\n">> }

\* ------------------------------------------------------------------------
\* State of one call of load_ihex_buffer
\* ------------------------------------------------------------------------
VARIABLES
    capacity,          \* *buffer_sz on entry: the size of the caller's buffer
    buffer,            \* the caller's buffer, indices 0..capacity-1
    buffer_sz,         \* the caller's variable behind buffer_sz
    pending,           \* characters of the current physical line fgets has not returned yet
    input,             \* the line texts taken from the file so far
    line_number,
    highest_addr,
    last_record_read,
    record,            \* the record stored by read_record_from_line in the last iteration
    check_sum,         \* the check_sum stored by read_record_from_line in the last iteration
    written,           \* the indices i of every store buffer[i] = ... executed so far
    state,             \* "Reading" in the loop, "Done" after return NULL, "Failed" after an error return
    ret                \* the value returned: message and the line number formatted into it

\* ------------------------------------------------------------------------
\* State of main around the call of load_ihex_buffer
\* ------------------------------------------------------------------------
VARIABLES
    build,             \* "plain": main of tek-firmware-updater.c, "libusb": main of part_000
    pc,                \* where main is; "caller" when the loader runs under some other caller
    opt_error,         \* the error main reports when it exits, NULL if none
    exit_code,         \* the value main returns
    usb_context,       \* libusb_init succeeded and libusb_exit was not called
    devices,           \* the devices the last libusb_get_device_list returned
    call_error,        \* what the last call of get_handle_to_tek_device returned
    tek_device_handle, \* the position in devices of the device main holds an open handle to, 0 if none
    tek_device_state,
    calls              \* the calls made to libusb and to upload_buffer_to_dev, in order

\* ------------------------------------------------------------------------
\* State of format_error
\* ------------------------------------------------------------------------
VARIABLES
    error_buffer,      \* the string in the static error_buffer of format_error
    format_args        \* where the string argument of each format_error call made so far pointed

errVars == <<error_buffer, format_args>>

mainVars == <<build, pc, opt_error, exit_code, usb_context, devices, call_error,
              tek_device_handle, tek_device_state, calls>>

vars == <<capacity, buffer, buffer_sz, pending, input, line_number, highest_addr,
          last_record_read, record, check_sum, written, state, ret, mainVars, errVars>>

\* the caller's buffer before the load (main leaves it uninitialised: any bytes)
CallerBuffer(cap) == [i \in 0..(cap - 1) |-> (165 + 3 * i) % 256]

\* the capacities tried: small ones, and the one main passes
Capacities == (1..MaxCap) \cup {IHEX_BUFFER_MAX_SZ}

\* FormatError given a line number counted from 0
FormatError_FromZero(msg, ln) == [msg |-> msg, line |-> ln - 1]

\* format_error( "<msg> (line %zu)", line_number )
FormatError(msg, ln) == [msg |-> msg, line |-> ln]

\* a plain string returned as the error; it holds no line number
PlainError(msg) == [msg |-> msg, line |-> 0]

\* a string made by format_error: the formats wrapped around a message,
\* outermost first, and the message with the line number formatted into it
Text(wraps, base) == [wraps |-> wraps, base |-> base]

\* static char error_buffer[MAX_ERROR_STRING_SZ] = {0}: the empty string
EmptyText == Text(<<>>, PlainError(""))

\* the error r returned by the loader is the address of error_buffer: it was
\* made by format_error, with a line number
InErrorBuffer(r) == r.msg # NULL /\ r.line # 0

\* format_error in the loader: the error r it returns, if formatted, is
\* written to error_buffer; the line number is an argument of every format,
\* and args tells where its string arguments point (it has one for a read
\* error only: what strerror returns)
LoaderFormats(r, args) ==
    /\ error_buffer' = (IF InErrorBuffer(r) THEN Text(<<>>, r) ELSE error_buffer)
    /\ format_args' = format_args \o args

\* the least element of a non-empty set of numbers
Least(S) == CHOOSE m \in S : \A x \in S : m <= x

\* fgets( line_buffer, IHEX_LINE_MAX_SZ, ihex_file ) on the characters ahead:
\* at most IHEX_LINE_MAX_SZ-1 characters, stopping after a '\n'
Fgets(stream) ==
    Only({ [line |-> SubSeq(stream, 1, n), rest |-> SubSeq(stream, n + 1, Len(stream))]
           : n \in { Least({ r \in 1..Len(stream) : stream[r] = "\n" }
                               \cup {Len(stream), IHEX_LINE_MAX_SZ - 1}) } })

\* (ui8)(check_sum + record.checksum) != 0
ChecksumFails(sum, rec) == ui8(sum + rec.checksum) # 0

\* size_t end_addr = record.addr + record.size
EndAddr(rec) == rec.addr + rec.size

\* AddrTooHigh testing against the size of main's buffer, not the size passed in
AddrTooHigh_MainSize(end_addr, sz) == end_addr >= IHEX_BUFFER_MAX_SZ

\* AddrTooHigh testing the last index stored to, not the one after it
AddrTooHigh_LastIndex(end_addr, sz) == end_addr - 1 >= sz

\* AddrTooHigh with > for >=
AddrTooHigh_Greater(end_addr, sz) == end_addr > sz

\* end_addr >= *buffer_sz
AddrTooHigh(end_addr, sz) == end_addr >= sz

\* RaiseHighest recording the last address stored to, not the one after it
RaiseHighest_LastStored(end_addr, highest) ==
    IF end_addr > highest THEN end_addr - 1 ELSE highest

\* RaiseHighest without the comparison: the end of the last record stored
RaiseHighest_Always(end_addr, highest) == end_addr

\* if ( end_addr > highest_addr ) highest_addr = end_addr
RaiseHighest(end_addr, highest) == IF end_addr > highest THEN end_addr ELSE highest

\* the indices stored to by the copy loop of a data record
StoreIndices(rec) == { rec.addr + i : i \in 0..(rec.size - 1) }

\* for ( i = 0; i < n; ++i ) buffer[record.addr+i] = record.data[i]: the n
\* stores go to n different indices, so the buffer after the loop is the
\* buffer before it with the stored bytes laid over it
CopyLoop(buf, rec, n) ==
    [k \in { rec.addr + i : i \in 0..(n - 1) } |-> rec.data[k - rec.addr + 1]] @@ buf

\* CopyData that leaves alone the bytes an earlier record stored
CopyData_KeepsStored(buf, rec) ==
    [k \in StoreIndices(rec) \ written |-> rec.data[k - rec.addr + 1]] @@ buf

\* CopyData with a loop that stops one byte early
CopyData_OneShort(buf, rec) == CopyLoop(buf, rec, rec.size - 1)

\* the buffer after the copy loop of a data record
CopyData(buf, rec) == CopyLoop(buf, rec, rec.size)

\* an iteration that returns the error err out of the loop
Stop(err, rec, sum) ==
    [state |-> "Failed", ret |-> err, record |-> rec, check_sum |-> sum,
     highest_addr |-> highest_addr, last_record_read |-> last_record_read,
     buffer |-> buffer, stores |-> {}]

\* case 0 of the switch: a data record
DataCase(rec, sum, ln) ==
    IF AddrTooHigh(EndAddr(rec), buffer_sz)
    THEN Stop(FormatError("Addr too high to upload", ln), rec, sum)
    ELSE [state |-> "Reading", ret |-> PlainError(NULL), record |-> rec, check_sum |-> sum,
          highest_addr |-> RaiseHighest(EndAddr(rec), highest_addr),
          last_record_read |-> last_record_read,
          buffer |-> CopyData(buffer, rec), stores |-> StoreIndices(rec)]

\* LastCase without the assignment last_record_read = true
LastCase_NotRecorded(rec, sum) ==
    [state |-> "Reading", ret |-> PlainError(NULL), record |-> rec, check_sum |-> sum,
     highest_addr |-> highest_addr, last_record_read |-> last_record_read,
     buffer |-> buffer, stores |-> {}]

\* case 1 of the switch: the terminating record
LastCase(rec, sum) ==
    [state |-> "Reading", ret |-> PlainError(NULL), record |-> rec, check_sum |-> sum,
     highest_addr |-> highest_addr, last_record_read |-> TRUE,
     buffer |-> buffer, stores |-> {}]

\* Dispatch without case 5 among the unsupported types
Dispatch_NoCase5(rec, sum, ln) ==
    CASE rec.type = 0 -> DataCase(rec, sum, ln)
      [] rec.type = 1 -> LastCase(rec, sum)
      [] rec.type \in {2, 3, 4} ->
            Stop(FormatError("Only support 8bit ihex format", ln), rec, sum)
      [] OTHER -> Stop(FormatError("Invalid record type", ln), rec, sum)

\* switch ( record.type )
Dispatch(rec, sum, ln) ==
    CASE rec.type = 0 -> DataCase(rec, sum, ln)
      [] rec.type = 1 -> LastCase(rec, sum)
      [] rec.type \in {2, 3, 4, 5} ->
            Stop(FormatError("Only support 8bit ihex format", ln), rec, sum)
      [] OTHER -> Stop(FormatError("Invalid record type", ln), rec, sum)

\* AfterRead going on to the next line when read_record_from_line fails
AfterRead_SkipsBadLine(rd, ln) ==
    IF rd.error # NULL
    THEN [state |-> "Reading", ret |-> PlainError(NULL), record |-> NoRecord, check_sum |-> 0,
          highest_addr |-> highest_addr, last_record_read |-> last_record_read,
          buffer |-> buffer, stores |-> {}]
    ELSE IF ChecksumFails(rd.check_sum, rd.record)
    THEN Stop(FormatError("Invalid record", ln), rd.record, rd.check_sum)
    ELSE Dispatch(rd.record, rd.check_sum, ln)

\* the loop body after read_record_from_line returned rd
AfterRead(rd, ln) ==
    IF rd.error # NULL THEN Stop(PlainError(rd.error), NoRecord, 0)
    ELSE IF ChecksumFails(rd.check_sum, rd.record)
    THEN Stop(FormatError("Invalid record", ln), rd.record, rd.check_sum)
    ELSE Dispatch(rd.record, rd.check_sum, ln)

RECURSIVE FgetsLines(_)
\* the lines successive calls of fgets return for the characters of a stream
FgetsLines(stream) ==
    IF stream = <<>> THEN {}
    ELSE {Fgets(stream).line} \cup FgetsLines(Fgets(stream).rest)

\* every line fgets can hand to the loop body
ReadableLines == UNION { FgetsLines(t \o e) : t \in Texts, e \in LineEnds }

\* read_record_from_line is a function of the line alone: its results,
\* computed once for each line fgets can return
ReadRecord == [l \in ReadableLines, b \in BOOLEAN |-> ReadRecordFromLine(l, b)]

\* LoopBody without the test of last_record_read before the line is parsed
LoopBody_NoTrailingTest(line, ln, bare0x) ==
    AfterRead(ReadRecord[line, bare0x], ln)

\* One iteration of the loop once fgets returned `line`, with line number ln:
\* the values of the loop's variables after it and how it leaves the loop.
LoopBody(line, ln, bare0x) ==
    IF last_record_read
    THEN Stop(FormatError("Data after last record", ln), NoRecord, 0)
    ELSE AfterRead(ReadRecord[line, bare0x], ln)

\* the line texts of the files given to main
MainTexts == { Terminator, ScenarioBC4, ScenarioC01, <<>> }

\* the texts the file may hold for the buffer at hand
TextsFor(cap) ==
    IF pc # "caller" THEN MainTexts
    ELSE IF cap = IHEX_BUFFER_MAX_SZ THEN BigTexts ELSE Texts

\* the characters fgets reads from: what is left of the current physical line,
\* or else a further line of the file with its line end
Streams ==
    IF pending # <<>> THEN { [chars |-> pending, text |-> <<>>] }
    ELSE IF Len(input) >= MaxLines THEN {}
    ELSE { [chars |-> t \o e, text |-> <<t>>] : t \in TextsFor(capacity), e \in LineEnds }

\* EXIT_SUCCESS and EXIT_FAILURE of stdlib.h
EXIT_SUCCESS == 0

EXIT_FAILURE == 1

\* #define TECK_VENDOR_ID 0x0E6A
TECK_VENDOR_ID == 3690

\* #define TECK_PRODUCT_ID_NORMAL_STATE 0x030C
TECK_PRODUCT_ID_NORMAL_STATE == 780

\* #define TECK_PRODUCT_ID_PROGRAMMABLE_STATE 0x030C
TECK_PRODUCT_ID_PROGRAMMABLE_STATE == 780

\* enum tek_device_state_t
TEK_NORMAL_STATE == TECK_PRODUCT_ID_NORMAL_STATE

TEK_PROGRAMMABLE_STATE == TECK_PRODUCT_ID_PROGRAMMABLE_STATE

\* main before its first statement, and all along when there is no main
MainAtRest ==
    /\ opt_error = NULL
    /\ exit_code = EXIT_SUCCESS
    /\ usb_context = FALSE
    /\ devices = <<>>
    /\ call_error = NULL
    /\ tek_device_handle = 0
    /\ tek_device_state = TEK_NORMAL_STATE
    /\ calls = <<>>
    /\ error_buffer = EmptyText
    /\ format_args = <<>>

\* the variables of load_ihex_buffer when it is entered
LoaderEntry ==
    /\ buffer = CallerBuffer(capacity)
    /\ buffer_sz = capacity
    /\ pending = <<>>
    /\ input = <<>>
    /\ line_number = 0
    /\ highest_addr = 0
    /\ last_record_read = FALSE
    /\ record = NoRecord
    /\ check_sum = 0
    /\ written = {}
    /\ state = "Reading"
    /\ ret = PlainError(NULL)

\* load_ihex_buffer called by any caller, with a buffer of any capacity
Init ==
    /\ capacity \in Capacities
    /\ LoaderEntry
    /\ build = "plain"
    /\ pc = "caller"
    /\ MainAtRest

\* fgets returns a line: the rest of the loop body runs on it
Iteration ==
    /\ state = "Reading"
    /\ \E st \in Streams, bare0x \in BOOLEAN :
        \E got \in {Fgets(st.chars)} :
          \E out \in {LoopBody(got.line, line_number + 1, bare0x)} :
              /\ line_number' = line_number + 1
              /\ pending' = got.rest
              /\ input' = input \o st.text
              /\ state' = out.state
              /\ ret' = out.ret
              /\ record' = out.record
              /\ check_sum' = out.check_sum
              /\ highest_addr' = out.highest_addr
              /\ last_record_read' = out.last_record_read
              /\ buffer' = out.buffer
              /\ written' = written \cup out.stores
              /\ LoaderFormats(out.ret, <<>>)
    /\ UNCHANGED <<capacity, buffer_sz, mainVars>>

\* EndOfFile breaking out of the loop whether or not the terminating record was read
EndOfFile_AlwaysBreak ==
    /\ state = "Reading"
    /\ pending = <<>>
    /\ line_number' = line_number + 1
    /\ buffer_sz' = highest_addr
    /\ state' = "Done"
    /\ ret' = PlainError(NULL)
    /\ record' = NoRecord
    /\ check_sum' = 0
    /\ LoaderFormats(ret', <<>>)
    /\ UNCHANGED <<capacity, buffer, pending, input, highest_addr, last_record_read, written,
                   mainVars>>

\* EndOfFile assigning *buffer_sz before the test of last_record_read
EndOfFile_WritesOnFailure ==
    /\ state = "Reading"
    /\ pending = <<>>
    /\ line_number' = line_number + 1
    /\ buffer_sz' = highest_addr
    /\ IF last_record_read
       THEN /\ state' = "Done"
            /\ ret' = PlainError(NULL)
       ELSE /\ state' = "Failed"
            /\ ret' = FormatError("Unexpected end-of-file", line_number + 1)
    /\ record' = NoRecord
    /\ check_sum' = 0
    /\ LoaderFormats(ret', <<>>)
    /\ UNCHANGED <<capacity, buffer, pending, input, highest_addr, last_record_read, written,
                   mainVars>>

\* fgets returns NULL and feof is set: break and return NULL after the
\* terminating record, an error otherwise
EndOfFile ==
    /\ state = "Reading"
    /\ pending = <<>>
    /\ line_number' = line_number + 1
    /\ IF last_record_read
       THEN /\ buffer_sz' = highest_addr
            /\ state' = "Done"
            /\ ret' = PlainError(NULL)
       ELSE /\ buffer_sz' = buffer_sz
            /\ state' = "Failed"
            /\ ret' = FormatError("Unexpected end-of-file", line_number + 1)
    /\ record' = NoRecord
    /\ check_sum' = 0
    /\ LoaderFormats(ret', <<>>)
    /\ UNCHANGED <<capacity, buffer, pending, input, highest_addr, last_record_read, written,
                   mainVars>>

\* fgets returns NULL and ferror is set
ReadError ==
    /\ state = "Reading"
    /\ line_number' = line_number + 1
    /\ state' = "Failed"
    /\ ret' = FormatError("Error reading ihex file", line_number + 1)
    /\ record' = NoRecord
    /\ check_sum' = 0
    /\ LoaderFormats(ret', <<"library">>)
    /\ UNCHANGED <<capacity, buffer, buffer_sz, pending, input, highest_addr,
                   last_record_read, written, mainVars>>

Next == Iteration \/ EndOfFile \/ ReadError

Spec == Init /\ [][Next]_vars

\* load_ihex_buffer is straight sequential code: once called it runs the loop
\* until a return or the break, and fgets on a file always returns
FairSpec == Init /\ [][Next]_vars /\ WF_vars(Next)

\* ------------------------------------------------------------------------
\* get_handle_to_tek_device (part_000)
\* ------------------------------------------------------------------------
\* a connected usb device: the identifiers of its descriptor, and whether
\* libusb_get_device_descriptor succeeds on it
DeviceKinds ==
    { [idVendor |-> v, idProduct |-> p, descriptor |-> d] :
        v \in {TECK_VENDOR_ID, 1133}, p \in {TECK_PRODUCT_ID_NORMAL_STATE, 49948},
        d \in BOOLEAN }

\* the lists libusb_get_device_list may return: the devices in any order
DeviceLists == UNION { [1..n -> DeviceKinds] : n \in 0..MaxDevices }

\* what the libusb calls of one get_handle_to_tek_device do: whether
\* libusb_get_device_list succeeds, the list it returns, whether libusb_open succeeds
Enumerations ==
    { [list_ok |-> FALSE, devices |-> <<>>, open_ok |-> FALSE] }
        \cup { [list_ok |-> TRUE, devices |-> d, open_ok |-> o] :
                    d \in DeviceLists, o \in BOOLEAN }

RECURSIVE ScanDevices(_, _, _, _)
\* the for loop over usb_devices from position it on: tek_device is the
\* position of the device found so far (0 for NULL), dev_state is *tek_device_state
ScanDevices(devs, it, tek_device, dev_state) ==
    IF it > Len(devs)
    THEN [error |-> NULL, tek_device |-> tek_device, state |-> dev_state]
    ELSE IF ~devs[it].descriptor
    THEN [error |-> "Unable to usb get device descriptor",
          tek_device |-> tek_device, state |-> dev_state]
    ELSE IF /\ devs[it].idVendor = TECK_VENDOR_ID
            /\ \/ devs[it].idProduct = TECK_PRODUCT_ID_NORMAL_STATE
               \/ devs[it].idProduct = TECK_PRODUCT_ID_PROGRAMMABLE_STATE
    THEN IF tek_device # 0
         THEN [error |-> "Multiple TEK keyboards found; make sure to connect only one",
               tek_device |-> tek_device, state |-> dev_state]
         ELSE ScanDevices(devs, it + 1, it, devs[it].idProduct)
    ELSE ScanDevices(devs, it + 1, tek_device, dev_state)

\* OpenFound opening the device found even when the loop ended on an error
OpenFound_DespiteError(sc, open_ok) ==
    IF sc.tek_device = 0
    THEN [error |-> "Unable to find a TEK keyboard device connected", handle |-> 0,
          state |-> sc.state]
    ELSE IF ~open_ok
    THEN [error |-> "Unable to get a handle on the TEK device", handle |-> 0,
          state |-> sc.state]
    ELSE [error |-> NULL, handle |-> sc.tek_device, state |-> sc.state]

\* the end of get_handle_to_tek_device, after the loop gave sc
OpenFound(sc, open_ok) ==
    IF sc.error # NULL THEN [error |-> sc.error, handle |-> 0, state |-> sc.state]
    ELSE IF sc.tek_device = 0
    THEN [error |-> "Unable to find a TEK keyboard device connected", handle |-> 0,
          state |-> sc.state]
    ELSE IF ~open_ok
    THEN [error |-> "Unable to get a handle on the TEK device", handle |-> 0,
          state |-> sc.state]
    ELSE [error |-> NULL, handle |-> sc.tek_device, state |-> sc.state]

\* get_handle_to_tek_device( &tek_device_handle, &tek_device_state ): the
\* error returned, the position of the device a handle was opened to (0 if
\* none was) and *tek_device_state afterwards
GetHandleToTekDevice(en, dev_state) ==
    IF ~en.list_ok
    THEN [error |-> "Unable to enumerate usb devices", handle |-> 0, state |-> dev_state]
    ELSE Only({ OpenFound(sc, en.open_ok)
                : sc \in {ScanDevices(en.devices, 1, 0, dev_state)} })

\* ------------------------------------------------------------------------
\* main
\* ------------------------------------------------------------------------
\* main called with the file of some firmware, in either build
MainInit ==
    /\ capacity = IHEX_BUFFER_MAX_SZ
    /\ LoaderEntry
    /\ build \in {"plain", "libusb"}
    /\ pc = "start"
    /\ MainAtRest

\* a string argument of format_error: where the pointer points (at a string
\* literal, into argv, at a string of the library, at error_buffer) and the
\* message there
Arg(at, base) == [at |-> at, base |-> base]

\* what is left of a string whose characters were overwritten while read
Indeterminate == "indeterminate"

\* vsnprintf( error_buffer, MAX_ERROR_STRING_SZ, format, args ) in format_error,
\* for a format with the string argument arg, when error_buffer holds buf: the
\* strings error_buffer may hold afterwards (the messages of the program are
\* shorter than MAX_ERROR_STRING_SZ).  When arg is error_buffer itself the
\* copy is between overlapping objects and its result is undefined: the format
\* around the old string (the argument is read before it is written over),
\* the format twice and then nothing (the argument is read after the format
\* was written over its beginning, as glibc does), or some other string.
Vsnprintf(buf, format, arg) ==
    IF arg.at = "error_buffer"
    THEN { Text(<<format>> \o buf.wraps, buf.base),
           Text(<<format, format>>, PlainError("")),
           Text(<<format>>, PlainError(Indeterminate)) }
    ELSE { Text(<<format>>, arg.base) }

\* format_error( outer, format_error( inner, arg ) ): the string returned by
\* the first call, which is error_buffer, is the argument of the second
FormatTwice(buf, inner, arg, outer) ==
    UNION { Vsnprintf(t, outer, Arg("error_buffer", t.base)) : t \in Vsnprintf(buf, inner, arg) }

\* the format_error calls of a step of main leave one of texts in
\* error_buffer; their string arguments pointed at args
Formats(texts, args) ==
    /\ error_buffer' \in texts
    /\ format_args' = format_args \o args

\* a step of main that does not call format_error
NoFormat == UNCHANGED errVars

\* the errors get_handle_to_tek_device makes with format_error, from the
\* strings libusb_strerror and libusb_error_name return
FormattedErrors ==
    { "Unable to enumerate usb devices", "Unable to usb get device descriptor",
      "Unable to get a handle on the TEK device" }

\* main goes to program_exit with the error msg after the library calls made
Fail(msg, made) ==
    /\ opt_error' = msg
    /\ exit_code' = EXIT_FAILURE
    /\ calls' = calls \o made
    /\ pc' = "exited"

\* if ( argc != 2 ): the usage message
CheckArguments ==
    /\ pc = "start"
    /\ \E argc \in 1..3 :
          IF argc # 2
          THEN /\ Fail("Usage", <<>>)
               /\ IF build = "libusb"
                  THEN Formats(Vsnprintf(error_buffer, "Usage: %s <firmware file>",
                                         Arg("argv", PlainError("argv[0]"))), <<"argv">>)
                  ELSE NoFormat
          ELSE pc' = "open" /\ UNCHANGED <<opt_error, exit_code, calls>> /\ NoFormat
    /\ UNCHANGED <<capacity, buffer, buffer_sz, pending, input, line_number, highest_addr,
                   last_record_read, record, check_sum, written, state, ret>>
    /\ UNCHANGED <<build, usb_context, devices, call_error, tek_device_handle,
                   tek_device_state>>

\* fopen( argv[1], "r" ), in main or in load_ihex_buffer_from_file
OpenFile ==
    /\ pc = "open"
    /\ \E opened \in BOOLEAN :
          IF ~opened
          THEN /\ Fail("Unable to open ihex file", <<>>)
               /\ IF build = "libusb"
                  THEN Formats(FormatTwice(error_buffer, "Unable to open ihex file \"%s\"",
                                           Arg("argv", PlainError("argv[1]")),
                                           "Unable to load hex buffer from file: %s"),
                               <<"argv", "error_buffer">>)
                  ELSE NoFormat
          ELSE pc' = "load" /\ UNCHANGED <<opt_error, exit_code, calls>> /\ NoFormat
    /\ UNCHANGED <<capacity, buffer, buffer_sz, pending, input, line_number, highest_addr,
                   last_record_read, record, check_sum, written, state, ret>>
    /\ UNCHANGED <<build, usb_context, devices, call_error, tek_device_handle,
                   tek_device_state>>

\* a step of load_ihex_buffer, called by main
Load == pc = "load" /\ Next

\* LoadReturned going on to the device whatever load_ihex_buffer returned
LoadReturned_ErrorIgnored ==
    /\ pc = "load"
    /\ state # "Reading"
    /\ pc' = (IF build = "libusb" THEN "usb_init" ELSE "upload")
    /\ UNCHANGED <<opt_error, exit_code, calls>>
    /\ NoFormat
    /\ UNCHANGED <<capacity, buffer, buffer_sz, pending, input, line_number, highest_addr,
                   last_record_read, record, check_sum, written, state, ret>>
    /\ UNCHANGED <<build, usb_context, devices, call_error, tek_device_handle,
                   tek_device_state>>

\* load_ihex_buffer returned: fclose, and if ( load_error ) main gives up
LoadReturned ==
    /\ pc = "load"
    /\ state # "Reading"
    /\ IF ret.msg # NULL
       THEN /\ Fail("Unable to load hex file", <<>>)
            /\ IF build = "libusb"
               THEN \E at \in {IF InErrorBuffer(ret) THEN "error_buffer" ELSE "literal"} :
                        Formats(FormatTwice(error_buffer, "Unable to load hex file: %s",
                                            Arg(at, ret),
                                            "Unable to load hex buffer from file: %s"),
                                <<at, "error_buffer">>)
               ELSE NoFormat
       ELSE /\ pc' = (IF build = "libusb" THEN "usb_init" ELSE "upload")
            /\ UNCHANGED <<opt_error, exit_code, calls>>
            /\ NoFormat
    /\ UNCHANGED <<capacity, buffer, buffer_sz, pending, input, line_number, highest_addr,
                   last_record_read, record, check_sum, written, state, ret>>
    /\ UNCHANGED <<build, usb_context, devices, call_error, tek_device_handle,
                   tek_device_state>>

\* int status = libusb_init( NULL )
UsbInit ==
    /\ pc = "usb_init"
    /\ \E initialised \in BOOLEAN :
          IF ~initialised
          THEN /\ Fail("Unable to initialize libusb", <<"libusb_init">>)
               /\ usb_context' = FALSE
               /\ Formats(Vsnprintf(error_buffer, "Unable to initialize libusb: %s (%s)",
                                    Arg("library", PlainError("libusb_error_name"))),
                          <<"library", "library">>)
          ELSE /\ NoFormat
               /\ usb_context' = TRUE
               /\ calls' = Append(calls, "libusb_init")
               /\ pc' = "discover"
               /\ UNCHANGED <<opt_error, exit_code>>
    /\ UNCHANGED <<capacity, buffer, buffer_sz, pending, input, line_number, highest_addr,
                   last_record_read, record, check_sum, written, state, ret>>
    /\ UNCHANGED <<build, devices, call_error, tek_device_handle, tek_device_state>>

\* the calls get_handle_to_tek_device makes for the enumeration en with the result got
HandleCalls(en, got) ==
    <<"libusb_get_device_list">>
        \o (IF en.list_ok /\ got.error \in {NULL, "Unable to get a handle on the TEK device"}
            THEN <<"libusb_open">> ELSE <<>>)

\* call_error = get_handle_to_tek_device( ... ) at position at of main: on an
\* error main goes to unwind_usb with the message msg, else on to position next
Connect(at, msg, next) ==
    /\ pc = at
    /\ \E en \in Enumerations :
        \E got \in {GetHandleToTekDevice(en, tek_device_state)} :
          /\ devices' = en.devices
          /\ call_error' = got.error
          /\ tek_device_state' = got.state
          /\ IF got.error # NULL
             THEN /\ Fail(msg, HandleCalls(en, got) \o <<"libusb_exit">>)
                  /\ usb_context' = FALSE
                  /\ tek_device_handle' = 0
                  /\ IF got.error \in FormattedErrors
                     THEN Formats(FormatTwice(error_buffer, got.error,
                                              Arg("library", PlainError("libusb_strerror")),
                                              msg),
                                  <<"library", "library", "error_buffer">>)
                     ELSE Formats(Vsnprintf(error_buffer, msg,
                                            Arg("literal", PlainError(got.error))),
                                  <<"literal">>)
             ELSE /\ tek_device_handle' = got.handle
                  /\ NoFormat
                  /\ calls' = calls \o HandleCalls(en, got)
                  /\ pc' = next
                  /\ UNCHANGED <<opt_error, exit_code, usb_context>>
    /\ UNCHANGED <<capacity, buffer, buffer_sz, pending, input, line_number, highest_addr,
                   last_record_read, record, check_sum, written, state, ret>>
    /\ UNCHANGED build

\* the first get_handle_to_tek_device of main
Discover == Connect("discover", "Unable to connect to a TEK", "switch")

\* the TEK was found: test of its state, the switch to programmable mode
\* (not written yet) and libusb_close before reconnecting
SwitchMode ==
    /\ pc = "switch"
    /\ IF tek_device_state # TEK_NORMAL_STATE
       THEN /\ Fail("Found TEK, but is not in normal mode", <<"libusb_close", "libusb_exit">>)
            /\ usb_context' = FALSE
       ELSE /\ calls' = Append(calls, "libusb_close")
            /\ pc' = "reconnect"
            /\ UNCHANGED <<opt_error, exit_code, usb_context>>
    /\ tek_device_handle' = 0
    /\ NoFormat
    /\ UNCHANGED <<capacity, buffer, buffer_sz, pending, input, line_number, highest_addr,
                   last_record_read, record, check_sum, written, state, ret>>
    /\ UNCHANGED <<build, devices, call_error, tek_device_state>>

\* the second get_handle_to_tek_device of main
Reconnect == Connect("reconnect", "Unable to reconnect to the TEK", "upload")

\* upload_buffer_to_dev (it returns NULL: nothing is sent yet), and the way out of main
Upload ==
    /\ pc = "upload"
    /\ IF build = "libusb"
       THEN IF tek_device_state # TEK_PROGRAMMABLE_STATE
            THEN Fail("Found TEK, but is not in programmable mode",
                      <<"libusb_close", "libusb_exit">>)
            ELSE /\ calls' = calls \o <<"upload_buffer_to_dev", "libusb_close", "libusb_exit">>
                 /\ pc' = "exited"
                 /\ UNCHANGED <<opt_error, exit_code>>
       ELSE /\ calls' = Append(calls, "upload_buffer_to_dev")
            /\ pc' = "exited"
            /\ UNCHANGED <<opt_error, exit_code>>
    /\ usb_context' = FALSE
    /\ tek_device_handle' = 0
    /\ NoFormat
    /\ UNCHANGED <<capacity, buffer, buffer_sz, pending, input, line_number, highest_addr,
                   last_record_read, record, check_sum, written, state, ret>>
    /\ UNCHANGED <<build, devices, call_error, tek_device_state>>

MainNext ==
    \/ CheckArguments
    \/ OpenFile
    \/ Load
    \/ LoadReturned
    \/ UsbInit
    \/ Discover
    \/ SwitchMode
    \/ Reconnect
    \/ Upload

MainSpec == MainInit /\ [][MainNext]_vars

\* ------------------------------------------------------------------------
\* Vocabulary of the properties
\* ------------------------------------------------------------------------
\* the error kinds of the loader, by the message load_ihex_buffer returns
UnexpectedEndOfInput == "Unexpected end-of-file"

IoFailure == "Error reading ihex file"

TrailingData == "Data after last record"

ChecksumMismatch == "Invalid record"

AddressOutOfRange == "Addr too high to upload"

UnsupportedRecordType == "Only support 8bit ihex format"

InvalidRecordType == "Invalid record type"

\* the error returned names the message msg and the line number ln
Reported(msg, ln) == [msg |-> msg, line |-> ln]

\* size + high byte of address + low byte of address + type + data + checksum
ByteTotal(rec) ==
    rec.size + (rec.addr \div 256) + (rec.addr % 256) + rec.type
        + SumBytes(rec.data) + rec.checksum

\* what read_record_from_line gives for each line text handed to it whole
ReadText == [t \in Texts, b \in BOOLEAN |-> ReadRecordFromLine(t, b)]

\* the line text t is a terminating record the loader accepts
IsTerminating(t) ==
    \E b \in BOOLEAN :
        LET rd == ReadText[t, b]
        IN  rd.error = NULL /\ ByteTotal(rd.record) % 256 = 0 /\ rd.record.type = 1

\* this step read a line from the input
LineObtained == line_number' = line_number + 1 /\ (input' # input \/ pending # <<>>)

\* this step found the input at its end (no line, no read error)
InputEnded ==
    /\ line_number' = line_number + 1
    /\ input' = input
    /\ pending = <<>>
    /\ ret'.msg # IoFailure

\* ------------------------------------------------------------------------
\* C1: at the end of the input the load is Done exactly when the terminating
\* record has been read, and fails with "Unexpected end-of-file" otherwise
\* (also for an empty input); a load is Done only this way, so the last line
\* of a successful load is its only terminating record; a terminating record
\* alone gives Done with a used length of 0.
\* ------------------------------------------------------------------------
C1_EndStep ==
    InputEnded =>
        IF last_record_read
        THEN state' = "Done" /\ ret'.msg = NULL
        ELSE state' = "Failed" /\ ret' = Reported(UnexpectedEndOfInput, line_number + 1)

C1_DonePath ==
    state' = "Done" /\ state # "Done" => InputEnded /\ last_record_read

C1_DoneState ==
    state = "Done" =>
        /\ last_record_read
        /\ Len(input) >= 1
        /\ IsTerminating(input[Len(input)])
        /\ \A i \in 1..(Len(input) - 1) : ~IsTerminating(input[i])
        /\ (input = <<Terminator>> => buffer_sz = 0 /\ highest_addr = 0)

C1_DoneIffTerminated ==
    /\ [](C1_DoneState)
    /\ [][C1_EndStep /\ C1_DonePath]_vars

C1_Witness ==
    /\ state = "Done"
    /\ Len(input) >= 2
    /\ buffer_sz > 0

\* ------------------------------------------------------------------------
\* C2: last_record_read, once set, stays set, and every line read after it
\* fails the load with "Data after last record": the line is not parsed and
\* neither the buffer nor highest_addr changes.
\* ------------------------------------------------------------------------
C2_Step ==
    /\ last_record_read => last_record_read'
    /\ last_record_read /\ LineObtained =>
          /\ state' = "Failed"
          /\ ret' = Reported(TrailingData, line_number + 1)
          /\ ~record'.parsed
          /\ buffer' = buffer
          /\ written' = written
          /\ highest_addr' = highest_addr

C2_TrailingData == [][C2_Step]_vars

C2_Witness ==
    /\ state = "Failed"
    /\ ret.msg = TrailingData
    /\ Len(input) = 3
    /\ input[2] = Terminator
    /\ input[3] \in DataTexts
    /\ written # {}

\* ------------------------------------------------------------------------
\* C3: a parsed record is accepted exactly when size + address bytes + type
\* + data bytes + checksum is 0 modulo 256, and fails with "Invalid record"
\* otherwise; for size 0 that is checksum = (256 - (size+hi+lo+type) % 256) % 256.
\* ------------------------------------------------------------------------
C3_ChecksumRule ==
    record.parsed =>
        /\ (ret.msg = ChecksumMismatch) <=> (ByteTotal(record) % 256 # 0)
        /\ ret.msg = ChecksumMismatch => state = "Failed" /\ ret.line = line_number
        /\ record.size = 0 =>
              ((ret.msg # ChecksumMismatch) <=>
                  (record.checksum =
                      (256 - ((record.size + (record.addr \div 256) + (record.addr % 256)
                                 + record.type) % 256)) % 256))

C3_Witness ==
    /\ record.parsed
    /\ record.size > 0
    /\ record.addr > 255
    /\ ret.msg = ChecksumMismatch

\* ------------------------------------------------------------------------
\* C4: every store into the buffer is at an index below the capacity passed in.
\* ------------------------------------------------------------------------
C4_StoresInBuffer == \A i \in written : 0 <= i /\ i < capacity

C4_Witness ==
    /\ state = "Done"
    /\ capacity = MaxCap
    /\ Cardinality(written) = MaxCap - 1

\* the record parsed by this step is a data record with a correct checksum
ValidData(rec) == rec.parsed /\ rec.type = 0 /\ ByteTotal(rec) % 256 = 0

\* ------------------------------------------------------------------------
\* C5: a data record with a correct checksum and address + size >= capacity
\* (equality and size 0 included) fails the load with "Addr too high to
\* upload", and none of its bytes is stored.
\* ------------------------------------------------------------------------
C5_Step ==
    ValidData(record') /\ record'.addr + record'.size >= capacity =>
        /\ state' = "Failed"
        /\ ret' = Reported(AddressOutOfRange, line_number + 1)
        /\ buffer' = buffer
        /\ written' = written
        /\ highest_addr' = highest_addr

C5_OutOfRange == [][C5_Step]_vars

C5_Witness ==
    /\ ValidData(record)
    /\ record.size > 0
    /\ record.addr + record.size = capacity
    /\ ret.msg = AddressOutOfRange
    /\ written # {}

\* the array new holds the bytes of data at the indices a, a+1, ... and is the
\* array old at every other index
Patched(new, old, a, data) ==
    /\ \A k \in a..(a + Len(data) - 1) : new[k] = data[k - a + 1]
    /\ new = [k \in a..(a + Len(data) - 1) |-> new[k]] @@ old

\* ------------------------------------------------------------------------
\* C6: a data record with a correct checksum and address + size < capacity,
\* read before the terminating record, stores its size data bytes at
\* address .. address+size-1 in order and leaves every other byte as it was.
\* ------------------------------------------------------------------------
C6_Step ==
    ~last_record_read /\ ValidData(record') /\ record'.addr + record'.size < capacity =>
        /\ state' = "Reading"
        /\ written' = written \cup (record'.addr .. (record'.addr + record'.size - 1))
        /\ Len(record'.data) = record'.size
        /\ Patched(buffer', buffer, record'.addr, record'.data)

C6_DataWrite == [][C6_Step]_vars

C6_Witness ==
    /\ ValidData(record)
    /\ state = "Reading"
    /\ record.size = 2
    /\ record.addr > 0
    /\ written # StoreIndices(record)
    /\ buffer[record.addr] = record.data[1]
    /\ buffer[record.addr + 1] = record.data[2]

\* ------------------------------------------------------------------------
\* C7: a record with a correct checksum is dispatched on its type alone:
\* type 1 sets last_record_read and changes neither buffer nor highest_addr,
\* types 2..5 fail with "Only support 8bit ihex format", types 6..255 fail
\* with "Invalid record type"; only type 0 stores into the buffer.
\* ------------------------------------------------------------------------
C7_Step ==
    record'.parsed /\ ByteTotal(record') % 256 = 0 =>
        /\ record'.type = 1 =>
              /\ state' = "Reading"
              /\ last_record_read'
              /\ highest_addr' = highest_addr
        /\ record'.type \in 2..5 =>
              /\ state' = "Failed"
              /\ ret' = Reported(UnsupportedRecordType, line_number + 1)
        /\ record'.type \in 6..255 =>
              /\ state' = "Failed"
              /\ ret' = Reported(InvalidRecordType, line_number + 1)
        /\ record'.type # 0 => buffer' = buffer /\ written' = written
        /\ record'.type \in 0..255

C7_TypeDispatch == [][C7_Step]_vars

C7_Witness ==
    /\ record.parsed
    /\ record.type = 1
    /\ record.size = 1
    /\ record.addr = 65535
    /\ last_record_read
    /\ written # {}

\* the largest element of a non-empty set of numbers
MaxOf(S) == CHOOSE m \in S : \A x \in S : x <= m

\* ------------------------------------------------------------------------
\* C8: highest_addr is always one more than the highest index stored to so
\* far, and 0 while nothing was stored; on Done it is the used length given
\* back to the caller.
\* ------------------------------------------------------------------------
C8_HighestStored ==
    /\ highest_addr = (IF written = {} THEN 0 ELSE MaxOf(written) + 1)
    /\ state = "Done" => buffer_sz = highest_addr

\* the bytes DE AD BE EF of scenario B
DeadBeef == <<222, 173, 190, 239>>

\* the first four bytes of the buffer are DE AD BE EF
HoldsDeadBeef == \A i \in 1..4 : buffer[i - 1] = DeadBeef[i]

\* ------------------------------------------------------------------------
\* C9 as stated: with a buffer of 16384 bytes the line ':04000000DEADBEEF00'
\* is accepted as the record size 4, address 0, type 0, data DE AD BE EF,
\* checksum 00, after which buffer[0..4] is DE AD BE EF and the high water
\* mark is 4, and the load of it followed by ':00000001FF' ends Done with a
\* used length of 4.
\* ------------------------------------------------------------------------
C9_ScenarioB_AsStated ==
    /\ capacity = IHEX_BUFFER_MAX_SZ /\ input = <<ScenarioB00>> /\ line_number = 1 =>
          /\ state = "Reading"
          /\ record = [size |-> 4, addr |-> 0, type |-> 0, data |-> DeadBeef,
                       checksum |-> 0, parsed |-> TRUE]
          /\ HoldsDeadBeef
          /\ highest_addr = 4
    /\ capacity = IHEX_BUFFER_MAX_SZ /\ input = <<ScenarioB00, Terminator>>
          /\ state # "Reading" /\ ret.msg # IoFailure =>
          /\ state = "Done"
          /\ HoldsDeadBeef
          /\ buffer_sz = 4

\* ------------------------------------------------------------------------
\* C9 amended: the bytes 04 00 00 00 DE AD BE EF sum to 0x33C, so the line
\* with checksum 00 fails with "Invalid record" at line 1 and stores nothing;
\* with the checksum C4 (sum 0x400) the record is accepted, buffer[0..4] is
\* DE AD BE EF, the high water mark is 4 and the load of it followed by
\* ':00000001FF' into a buffer of 16384 bytes ends Done with a used length of 4.
\* ------------------------------------------------------------------------
C9_ScenarioB ==
    /\ capacity = IHEX_BUFFER_MAX_SZ /\ input = <<ScenarioB00>> /\ line_number = 1 =>
          /\ state = "Failed"
          /\ ret = Reported(ChecksumMismatch, 1)
          /\ ByteTotal(record) = 828
          /\ buffer = CallerBuffer(capacity)
    /\ capacity = IHEX_BUFFER_MAX_SZ /\ input = <<ScenarioBC4>> /\ line_number = 1 =>
          /\ state = "Reading"
          /\ record = [size |-> 4, addr |-> 0, type |-> 0, data |-> DeadBeef,
                       checksum |-> 196, parsed |-> TRUE]
          /\ ByteTotal(record) = 1024
          /\ HoldsDeadBeef
          /\ highest_addr = 4
    /\ capacity = IHEX_BUFFER_MAX_SZ /\ input = <<ScenarioBC4, Terminator>>
          /\ state # "Reading" /\ ret.msg # IoFailure =>
          /\ state = "Done"
          /\ HoldsDeadBeef
          /\ buffer_sz = 4

C9_Witness ==
    /\ state = "Done"
    /\ capacity = IHEX_BUFFER_MAX_SZ
    /\ input = <<ScenarioBC4, Terminator>>
    /\ buffer_sz = 4

\* ------------------------------------------------------------------------
\* C10 as stated: an input whose first line is ':01000000FF00' fails with
\* "Invalid record" at line 1 and the buffer is as the caller passed it.
\* ------------------------------------------------------------------------
C10_ScenarioC_AsStated ==
    Len(input) >= 1 /\ input[1] = ScenarioC00 /\ line_number >= 1 =>
        /\ state = "Failed"
        /\ ret = Reported(ChecksumMismatch, 1)
        /\ buffer = CallerBuffer(capacity)

\* ------------------------------------------------------------------------
\* C10 amended: the bytes 01 00 00 00 FF 00 sum to 0x100, so ':01000000FF00'
\* has a correct checksum: it is a data record that stores FF at address 0
\* when the capacity is at least 2 (and is out of range for capacity 1).  An
\* input whose first line has a wrong checksum, as ':01000000FF01', fails
\* with "Invalid record" at line 1 and the buffer is as the caller passed it.
\* ------------------------------------------------------------------------
C10_ScenarioC ==
    /\ Len(input) >= 1 /\ input[1] = ScenarioC01 /\ line_number >= 1 =>
          /\ state = "Failed"
          /\ ret = Reported(ChecksumMismatch, 1)
          /\ line_number = 1
          /\ buffer = CallerBuffer(capacity)
          /\ written = {}
    /\ input = <<ScenarioC00>> /\ line_number = 1 =>
          /\ ByteTotal(record) = 256
          /\ IF capacity >= 2
             THEN state = "Reading" /\ buffer[0] = 255 /\ written = {0}
             ELSE ret = Reported(AddressOutOfRange, 1)

C10_Witness ==
    /\ input = <<ScenarioC01>>
    /\ state = "Failed"
    /\ ret.msg = ChecksumMismatch
    /\ ret.line = 1
    /\ record.data = <<255>>

\* the error the line text t raises when it is handed whole to the loop body
\* with a buffer of cap bytes and no terminating record before it; NULL if none
LineFault(t, cap, b) ==
    LET rd == ReadText[t, b]
    IN  IF rd.error # NULL THEN rd.error
        ELSE IF ByteTotal(rd.record) % 256 # 0 THEN ChecksumMismatch
        ELSE IF rd.record.type = 0
             THEN (IF rd.record.addr + rd.record.size >= cap THEN AddressOutOfRange ELSE NULL)
        ELSE IF rd.record.type = 1 THEN NULL
        ELSE IF rd.record.type \in 2..5 THEN UnsupportedRecordType
        ELSE InvalidRecordType

\* with either line end, fgets returns the line text t and its line end at once
FitsLineBuffer(t) == Len(t) + 2 < IHEX_LINE_MAX_SZ

\* ------------------------------------------------------------------------
\* C11: the load stops at the first error.  A failing step changes neither
\* the buffer nor highest_addr, and after it no step is taken: no line is
\* read and nothing is modified.  Every line before the last one read raised
\* no error of its own and only the one just before the last may be the
\* terminating record, so the error returned is the one of the earliest
\* failing line: "Data after last record" right after the terminating record,
\* the line's own error otherwise; an end-of-file or read error comes after
\* lines that all raised none.
\* ------------------------------------------------------------------------
C11_Step ==
    /\ state # "Failed"
    /\ state' = "Failed" =>
          /\ buffer' = buffer
          /\ highest_addr' = highest_addr
          /\ written' = written
          /\ ret'.msg # NULL

C11_State ==
    /\ \A i \in 1..(Len(input) - 1) : \E b \in BOOLEAN : LineFault(input[i], capacity, b) = NULL
    /\ \A i \in 1..(Len(input) - 2) : ~IsTerminating(input[i])
    /\ state = "Failed" /\ ret.msg \in {UnexpectedEndOfInput, IoFailure} =>
          /\ \A i \in 1..Len(input) : \E b \in BOOLEAN : LineFault(input[i], capacity, b) = NULL
          /\ line_number = Len(input) + 1 \/ ~FitsLineBuffer(input[Len(input)])
    /\ state = "Failed" /\ ret.msg \notin {UnexpectedEndOfInput, IoFailure} =>
          /\ Len(input) >= 1
          /\ FitsLineBuffer(input[Len(input)]) =>
                /\ line_number = Len(input)
                /\ IF Len(input) >= 2 /\ IsTerminating(input[Len(input) - 1])
                   THEN ret.msg = TrailingData
                   ELSE \E b \in BOOLEAN : LineFault(input[Len(input)], capacity, b) = ret.msg

C11_FirstErrorStops == [](C11_State) /\ [][C11_Step]_vars

C11_Witness ==
    /\ state = "Failed"
    /\ Len(input) = 2
    /\ Len(input) < MaxLines
    /\ written # {}
    /\ ret.msg = "Error parsing record header"

\* ------------------------------------------------------------------------
\* C12: every error returned names the number of the line at which it was
\* raised, lines counted from 1: the error of a malformed line, of a wrong
\* checksum, of an address out of range, of an unsupported or invalid type,
\* and the unexpected end of the input.
\* ------------------------------------------------------------------------
C12_ErrorsNameLine ==
    state = "Failed" => line_number >= 1 /\ ret.line = line_number

\* the errors of read_record_from_line: the line is malformed
MalformedLine ==
    { "Invalid line length", "Invalid start code", "Error parsing record header",
      "Error parsing record data", "Error parsing record chechsum" }

\* the line text t is ':' followed by hexadecimal digits only, 11 characters or more
IsHexLine(t) == Len(t) >= 11 /\ t[1] = ":" /\ \A k \in 2..Len(t) : IsHex(t[k])

\* the size the two digits after ':' state
StatedSize(t) == HexNumber(t, 2, 2)

\* t is a well-formed record line: 11 + 2*size characters for the size it states
WellFormed(t) == IsHexLine(t) /\ Len(t) = 11 + 2 * StatedSize(t)

\* this step took the next line text of the input file
TextTaken == input' # input

\* the line text taken by this step
NewText == input'[Len(input')]

\* ------------------------------------------------------------------------
\* C13: a well-formed record line of 11 + 2*size characters, size 0..255,
\* with its line end '\n' or '\r\n', is read as one line: nothing of it is
\* left for a further line, and unless the terminating record came before it
\* the line is parsed into a record of that size and raises no error of a
\* malformed line.
\* ------------------------------------------------------------------------
C13_Step ==
    TextTaken /\ WellFormed(NewText) =>
        /\ pending' = <<>>
        /\ ~last_record_read =>
              /\ record'.parsed
              /\ record'.size = StatedSize(NewText)
              /\ ret'.msg \notin MalformedLine

C13_WholeLines == [][C13_Step]_vars

\* ------------------------------------------------------------------------
\* C14: read_record_from_line produces a record only from a line whose
\* characters after ':' are all hexadecimal digits, and the record's size,
\* address and type are the values of the digits at their positions; a line
\* read whole that holds another character there (white space, a sign, a
\* letter that is no digit) is not parsed and fails as a malformed line.
\* ------------------------------------------------------------------------
C14_Step ==
    TextTaken /\ pending' = <<>> /\ ~last_record_read =>
        IF IsHexLine(NewText)
        THEN record'.parsed =>
                /\ record'.size = StatedSize(NewText)
                /\ record'.addr = HexNumber(NewText, 4, 4)
                /\ record'.type = HexNumber(NewText, 8, 2)
        ELSE ~record'.parsed /\ ret'.msg \in MalformedLine

C14_HexDigitsOnly == [][C14_Step]_vars

\* the call c was made
Called(c) == \E k \in 1..Len(calls) : calls[k] = c

\* the load of the firmware file failed: load_ihex_buffer returned an error,
\* or the file could not be opened
LoadFailed == state = "Failed" \/ opt_error = "Unable to open ihex file"

\* ------------------------------------------------------------------------
\* C15: main makes no device step after a failed load.  When the load fails
\* main has made no call to libusb or to upload_buffer_to_dev and makes none
\* afterwards: there is no usb context and no open handle, and main exits
\* with EXIT_FAILURE.  Every call to libusb or upload_buffer_to_dev is made
\* after a load that returned without error, in the order libusb_init,
\* device discovery, upload.
\* ------------------------------------------------------------------------
C15_NoDeviceStepAfterFailedLoad ==
    /\ LoadFailed =>
          /\ calls = <<>>
          /\ ~usb_context
          /\ tek_device_handle = 0
          /\ pc \in {"load", "exited"}
          /\ pc = "exited" => exit_code = EXIT_FAILURE /\ opt_error # NULL
    /\ calls # <<>> => state = "Done" /\ ret.msg = NULL
    /\ Called("upload_buffer_to_dev") /\ build = "libusb" =>
          /\ calls[1] = "libusb_init"
          /\ Called("libusb_open")
          /\ calls[Len(calls) - 2] = "upload_buffer_to_dev"

C15_Witness ==
    /\ build = "libusb"
    /\ pc = "exited"
    /\ state = "Failed"
    /\ written # {}
    /\ exit_code = EXIT_FAILURE
    /\ calls = <<>>

\* the device d has the vendor and product identifiers of a TEK
IsTek(d) == d.idVendor = 3690 /\ d.idProduct = 780

\* the positions of the devices of the list devs that are TEKs
Teks(devs) == { k \in 1..Len(devs) : IsTek(devs[k]) }

\* how many times libusb_open was called in the sequence of calls cs
Opens(cs) == Cardinality({ k \in 1..Len(cs) : cs[k] = "libusb_open" })

\* ------------------------------------------------------------------------
\* C16: get_handle_to_tek_device returns without error, with a handle opened
\* to a TEK, only when exactly one of the connected devices has the vendor
\* and product identifiers of the TEK; when none or more than one has them it
\* returns an error and libusb_open is not called, whatever the order of the
\* devices in the list.
\* ------------------------------------------------------------------------
C16_Step ==
    pc \in {"discover", "reconnect"} =>
        /\ call_error' = NULL =>
              /\ Cardinality(Teks(devices')) = 1
              /\ tek_device_handle' \in Teks(devices')
              /\ Opens(calls') = Opens(calls) + 1
              /\ pc' # "exited"
        /\ Cardinality(Teks(devices')) # 1 =>
              /\ call_error' # NULL
              /\ tek_device_handle' = 0
              /\ Opens(calls') = Opens(calls)
              /\ pc' = "exited" /\ exit_code' = EXIT_FAILURE

C16_ExactlyOneTek == [][C16_Step]_vars

C16_Witness ==
    /\ pc = "switch"
    /\ call_error = NULL
    /\ Len(devices) = MaxDevices
    /\ tek_device_handle = MaxDevices
    /\ devices[1].idVendor = TECK_VENDOR_ID

\* a %x conversion cannot begin at the character c: it is no hexadecimal
\* digit, no white space and no sign
Unreadable(c) == ~IsHex(c) /\ ~IsSpace(c) /\ c \notin {"+", "-"}

\* the 8 characters of the header of the line text t are hexadecimal digits
HexHeader(t) == \A k \in 2..9 : IsHex(t[k])

\* ------------------------------------------------------------------------
\* C17: the checks on a line are made in a fixed order and the first that
\* fails gives the error: length below 11, start code, header fields, length
\* against 11 + 2*size, data digits, checksum digits (read_record_from_line),
\* then the checksum sum, then the type and the address range.  So a line
\* shorter than 11 characters fails on its length also without ':', a line
\* without ':' fails on the start code whatever follows, a header that
\* cannot be read fails before the length is compared, a length that does
\* not match fails before the data is read, unreadable data fails before
\* the checksum digits, and a parsed record with a wrong checksum fails with
\* "Invalid record" whatever its type and address.
\* ------------------------------------------------------------------------
C17_Step ==
    TextTaken /\ ~last_record_read /\ FitsLineBuffer(NewText) =>
        /\ Len(NewText) < 11 => ret'.msg = "Invalid line length"
        /\ Len(NewText) >= 11 /\ NewText[1] # ":" => ret'.msg = "Invalid start code"
        /\ Len(NewText) >= 11 /\ NewText[1] = ":" =>
              /\ Unreadable(NewText[2]) => ret'.msg = "Error parsing record header"
              /\ HexHeader(NewText) /\ Len(NewText) # 11 + 2 * StatedSize(NewText) =>
                    ret'.msg = "Invalid line length"
              /\ HexHeader(NewText) /\ Len(NewText) = 11 + 2 * StatedSize(NewText) =>
                    IF \E i \in 0..(StatedSize(NewText) - 1) : Unreadable(NewText[10 + 2 * i])
                    THEN ret'.msg = "Error parsing record data"
                    ELSE Unreadable(NewText[Len(NewText) - 1]) =>
                            ret'.msg = "Error parsing record chechsum"
        /\ ret'.msg \in MalformedLine => ~record'.parsed /\ state' = "Failed"
        /\ record'.parsed =>
              IF ByteTotal(record') % 256 # 0
              THEN ret'.msg = ChecksumMismatch /\ state' = "Failed"
              ELSE ret'.msg \in {NULL, AddressOutOfRange, UnsupportedRecordType,
                                 InvalidRecordType}

C17_CheckOrder == [][C17_Step]_vars

C17_Witness ==
    /\ state = "Failed"
    /\ ret.msg = ChecksumMismatch
    /\ record.parsed
    /\ record.type \in 2..5
    /\ Len(input) = 2

\* ------------------------------------------------------------------------
\* C18: highest_addr never decreases.  Whatever the step (a data record at
\* a lower address or over bytes already stored, a terminating record, a
\* line that fails, the end of the file) its value after the step is at
\* least its value before, and it changes only to the end address of a data
\* record that was stored.
\* ------------------------------------------------------------------------
C18_Step ==
    /\ highest_addr' >= highest_addr
    /\ highest_addr' # highest_addr =>
          /\ state' = "Reading"
          /\ record'.parsed /\ record'.type = 0
          /\ highest_addr' = EndAddr(record')

C18_HighestNeverDecreases == [][C18_Step]_vars

\* a data record was stored below the highest address reached before it
C18_Witness ==
    /\ state = "Reading"
    /\ record.parsed /\ record.type = 0 /\ record.size > 0
    /\ EndAddr(record) < highest_addr

\* the record of the i-th line of the input
InputRecord(i) == ReadText[input[i], FALSE].record

\* the i-th line of the input is a data record that supplies a byte for the
\* buffer position p
Supplies(i, p) ==
    /\ ReadText[input[i], FALSE].error = NULL
    /\ InputRecord(i).type = 0
    /\ p \in StoreIndices(InputRecord(i))

\* the byte the i-th line of the input supplies for the position p
Supplied(i, p) == InputRecord(i).data[p - InputRecord(i).addr + 1]

\* the last line of the input that supplies a byte for the position p
LastSupplier(p) ==
    CHOOSE i \in 1..Len(input) :
        Supplies(i, p) /\ \A k \in (i + 1)..Len(input) : ~Supplies(k, p)

\* two data records of the input supply different bytes for one position
OverlapDiffers ==
    \E i, k \in 1..Len(input) : \E p \in written :
        i < k /\ Supplies(i, p) /\ Supplies(k, p) /\ Supplied(i, p) # Supplied(k, p)

\* ------------------------------------------------------------------------
\* C19: last write wins.  After a successful load every buffer position for
\* which some data record of the input supplies a byte holds the byte of the
\* last such record in input order; the positions supplied are exactly the
\* positions stored to.  When no two data records overlap, the last record
\* is the only one and each record's bytes are the buffer slice at its
\* address.
\* ------------------------------------------------------------------------
C19_LastWriteWins ==
    state = "Done" =>
        /\ \A i \in 1..Len(input) :
              ReadText[input[i], FALSE].error = NULL /\ InputRecord(i).type = 0 =>
                  \A p \in StoreIndices(InputRecord(i)) :
                      /\ p \in written
                      /\ buffer[p] = Supplied(LastSupplier(p), p)
        /\ \A p \in written : \E i \in 1..Len(input) : Supplies(i, p)

\* a successful load in which a later record rewrote a byte with another value
C19_Witness == state = "Done" /\ OverlapDiffers

\* ------------------------------------------------------------------------
\* C20: the caller's *buffer_sz is written only when the load succeeds.
\* While the load runs and after it failed, with whatever error at whatever
\* line, *buffer_sz holds the capacity it held on entry; after a successful
\* load it holds highest_addr, which is at most that capacity.  No step but
\* the one that reaches Done changes it.
\* ------------------------------------------------------------------------
C20_State ==
    /\ state # "Done" => buffer_sz = capacity
    /\ state = "Done" => buffer_sz = highest_addr /\ buffer_sz <= capacity

C20_Step == buffer_sz' # buffer_sz => state = "Reading" /\ state' = "Done"

C20_SizeWrittenOnSuccess == [](C20_State) /\ [][C20_Step]_vars

\* a load that failed after it had stored data below the capacity
C20_Witness ==
    /\ state = "Failed"
    /\ highest_addr > 0
    /\ highest_addr < capacity
    /\ buffer_sz = capacity
    /\ Len(input) >= 2

\* the loop has just processed a terminating record and goes on reading
TerminatorProcessed == state = "Reading" /\ record.parsed /\ record.type = 1

\* ------------------------------------------------------------------------
\* C21: the load of a finite input ends: eventually the state is Done or
\* Failed.  Once a terminating record was processed the very next read ends
\* it: the end of the input gives Done, a further line (whatever it holds)
\* gives Failed, a read error gives Failed; the loop makes one read past the
\* terminating record and no more.
\* ------------------------------------------------------------------------
C21_Step ==
    TerminatorProcessed =>
        /\ last_record_read
        /\ line_number' = line_number + 1
        /\ state' \in {"Done", "Failed"}
        /\ InputEnded => state' = "Done"
        /\ LineObtained => state' = "Failed" /\ ret' = Reported("Data after last record", line_number')

C21_Terminates == <>(state \in {"Done", "Failed"}) /\ [][C21_Step]_vars

\* a line after the terminating record ended the load
C21_Witness ==
    /\ state = "Failed"
    /\ last_record_read
    /\ ret.msg = "Data after last record"
    /\ Len(input) >= 2

\* ------------------------------------------------------------------------
\* C22: in every reachable state highest_addr is at most capacity - 1: a
\* data record with addr + size = capacity is refused.  So the length given
\* back on success is below the capacity, and no accepted data record stores
\* to the position capacity - 1: every index stored to is at most
\* capacity - 2 and the last byte of the buffer stays as the caller left it.
\* ------------------------------------------------------------------------
C22_LastByteUnused ==
    /\ highest_addr <= capacity - 1
    /\ \A p \in written : p <= capacity - 2
    /\ buffer[capacity - 1] = CallerBuffer(capacity)[capacity - 1]
    /\ DOMAIN buffer = 0..(capacity - 1)
    /\ state = "Done" => buffer_sz < capacity

\* a record ending at capacity - 1 was stored, the next one, ending at
\* capacity, was refused
C22_Witness ==
    /\ state = "Failed"
    /\ ret.msg = AddressOutOfRange
    /\ record.parsed /\ EndAddr(record) = capacity
    /\ highest_addr = capacity - 1
    /\ capacity - 2 \in written

\* ------------------------------------------------------------------------
\* C23: on every error path from the loader up to main, the string handed
\* to format_error as an argument is never the static error_buffer that
\* format_error writes: no call made so far had an argument pointing at
\* error_buffer, so no message is read from the buffer while the same call
\* overwrites it.
\* ------------------------------------------------------------------------
C23_NoAliasedArgument ==
    \A i \in 1..Len(format_args) : format_args[i] # "error_buffer"

====
